---- MODULE Spec2Model ----
(***************************************************************************)
(* The SOS game engine of gschick3/sos-game: the Game of src/game.rs       *)
(* (board, turn, scores, filled-cell counter, status, win-condition        *)
(* policy) and the Recording of src/recording.rs.                          *)
(*                                                                         *)
(* src/game.rs holds a Game without a Recording; the Game that main.rs     *)
(* drives (self.game.recording, main.rs:135) owns one.  make_move below is *)
(* the handler of src/game.rs; RecordedMakeMove adds the append to the     *)
(* Recording that the specification describes for the Game main.rs uses.   *)
(*                                                                         *)
(* The Recording is also modelled on its own (add_move, next_move, reset), *)
(* with its text format (as_string, read_from_file on texts that are       *)
(* sequences of characters), and as the source of the moves of a replay    *)
(* (the replay branch of GameInterface::update in main.rs).                *)
(*                                                                         *)
(* The Board of src/game/board.rs is modelled on its own (get_value,       *)
(* set_cell, resize_reset), and sos_made is also modelled as it runs, with *)
(* the usize subtractions and the indexing that can panic.                 *)
(***************************************************************************)
EXTENDS Integers, Sequences, FiniteSets, TLC

VARIABLES
    board,        \* Game.board: board[row][col], rows and columns 0..len-1
    turn,         \* Game.turn
    game_type,    \* Game.game_type: the win-condition policy chosen by new
    cells_filled, \* Game.cells_filled
    left_score,   \* Game.left_score
    right_score,  \* Game.right_score
    state,        \* Game.state
    recording,    \* the Game's Recording: mode, board_size, moves, current_move
    last,         \* the last call: its operation, whether make_move accepted
                  \* it, and the S-O-S count sos_made returned to it
    file,         \* the text of the recording file, a sequence of characters
    out,          \* what the last query returned: next_move, get_cell,
                  \* read_from_file
    log           \* the calls made on the Recording since new or reset set its
                  \* cursor to 0

gameVars == <<board, turn, game_type, cells_filled, left_score, right_score, state>>
ioVars == <<file, out, log>>
vars == <<board, turn, game_type, cells_filled, left_score, right_score, state,
          recording, last, file, out, log>>

----------------------------------------------------------------------------
(* Enumerations of src/game_enums.rs *)

Cell == {"Empty", "S", "O"}
Mode == {"Classic", "Simple"}
Turn == {"Left", "Right"}
State == {"LeftWin", "RightWin", "Draw", "Playing", "NotStarted"}

----------------------------------------------------------------------------
(* Bounds of the model *)

\* The board size of the games explored: the smallest the size slider offers
\* (main.rs:70) and the size of the full-game tests (game.rs:403, 421).
BoardSize == 3

\* make_move is called with rows and columns 0 .. len-1+OobMargin.
OobMargin == 1

\* On the BoardSize board a recorded game is followed for this many accepted
\* moves; on the smaller board it is followed to the end.
MaxRecorded == 3

\* A Recording used on its own (add_move, next_move, reset) holds at most this
\* many moves, and is followed for MaxLog calls after its cursor was set to 0.
MaxMoves == 2
MaxLog == 2 * MaxMoves + 2

\* A Recording that is written to a file holds at most this many moves.
MaxFileMoves == 2

\* A Board on its own has at most this many columns and this many rows.
GridWidth == 2
GridHeight == 2

----------------------------------------------------------------------------
(* Results of calls *)

\* Option: None and Some(v).
None == [some |-> FALSE]
Some(v) == [some |-> TRUE, value |-> v]

\* Result: Err(Error) and Ok(v).
Err == [ok |-> FALSE]
Ok(v) == [ok |-> TRUE, value |-> v]

\* The call did not return: the thread panicked (an index out of bounds).
Panic == [panic |-> TRUE]

\* The file of a given text, and the file that cannot be opened.
File(text) == [exists |-> TRUE, text |-> text]
NoFile == [exists |-> FALSE]

----------------------------------------------------------------------------
(* Pure helpers of Game *)

B2N(p) == IF p THEN 1 ELSE 0

board_len(b) == Cardinality(DOMAIN b)

EmptyBoard(n) == [y \in 0..(n - 1) |-> [x \in 0..(n - 1) |-> "Empty"]]

valid_cell(b, col, row) == col < board_len(b) /\ row < board_len(b)

switch_turn(t) == IF t = "Left" THEN "Right" ELSE "Left"

\* (Variant: full one cell early.)
board_full_one_early(b, filled) == filled >= board_len(b) * board_len(b) - 1

board_full(b, filled) == filled = board_len(b) * board_len(b)

\* sos_made, arm Cell::O: the lines that the O at column x, row y centres.
\* (Variant: the horizontal check is left out.)
sos_made_O_no_horizontal(b, x, y) ==
    LET n == board_len(b) IN
    IF y > 0 /\ y < n - 1
    THEN B2N(b[y-1][x] = "S" /\ b[y+1][x] = "S")
         + (IF x > 0 /\ x < n - 1
            THEN B2N(b[y-1][x+1] = "S" /\ b[y+1][x-1] = "S")
                 + B2N(b[y+1][x+1] = "S" /\ b[y-1][x-1] = "S")
            ELSE 0)
    ELSE 0

sos_made_O(b, x, y) ==
    LET n == board_len(b) IN
    (IF y > 0 /\ y < n - 1
     THEN B2N(b[y-1][x] = "S" /\ b[y+1][x] = "S")
          + (IF x > 0 /\ x < n - 1
             THEN B2N(b[y-1][x+1] = "S" /\ b[y+1][x-1] = "S")
                  + B2N(b[y+1][x+1] = "S" /\ b[y-1][x-1] = "S")
             ELSE 0)
     ELSE 0)
    + (IF x > 0 /\ x < n - 1
       THEN B2N(b[y][x+1] = "S" /\ b[y][x-1] = "S")
       ELSE 0)

\* (Variant: the line that goes straight up from the S is left out.)
sos_made_S_no_up(b, x, y) ==
    LET n == board_len(b) IN
    (IF y > 1
     THEN (IF x > 1
           THEN B2N(b[y-1][x-1] = "O" /\ b[y-2][x-2] = "S")
           ELSE 0)
          + (IF x < n - 2
             THEN B2N(b[y-1][x+1] = "O" /\ b[y-2][x+2] = "S")
             ELSE 0)
     ELSE 0)
    + (IF y < n - 2
       THEN B2N(b[y+1][x] = "O" /\ b[y+2][x] = "S")
            + (IF x > 1
               THEN B2N(b[y+1][x-1] = "O" /\ b[y+2][x-2] = "S")
               ELSE 0)
            + (IF x < n - 2
               THEN B2N(b[y+1][x+1] = "O" /\ b[y+2][x+2] = "S")
               ELSE 0)
       ELSE 0)
    + (IF x > 1
       THEN B2N(b[y][x-1] = "O" /\ b[y][x-2] = "S")
       ELSE 0)
    + (IF x < n - 2
       THEN B2N(b[y][x+1] = "O" /\ b[y][x+2] = "S")
       ELSE 0)

\* sos_made, arm Cell::S: the lines that the S at column x, row y ends.
sos_made_S(b, x, y) ==
    LET n == board_len(b) IN
    (IF y > 1
     THEN B2N(b[y-1][x] = "O" /\ b[y-2][x] = "S")
          + (IF x > 1
             THEN B2N(b[y-1][x-1] = "O" /\ b[y-2][x-2] = "S")
             ELSE 0)
          + (IF x < n - 2
             THEN B2N(b[y-1][x+1] = "O" /\ b[y-2][x+2] = "S")
             ELSE 0)
     ELSE 0)
    + (IF y < n - 2
       THEN B2N(b[y+1][x] = "O" /\ b[y+2][x] = "S")
            + (IF x > 1
               THEN B2N(b[y+1][x-1] = "O" /\ b[y+2][x-2] = "S")
               ELSE 0)
            + (IF x < n - 2
               THEN B2N(b[y+1][x+1] = "O" /\ b[y+2][x+2] = "S")
               ELSE 0)
       ELSE 0)
    + (IF x > 1
       THEN B2N(b[y][x-1] = "O" /\ b[y][x-2] = "S")
       ELSE 0)
    + (IF x < n - 2
       THEN B2N(b[y][x+1] = "O" /\ b[y][x+2] = "S")
       ELSE 0)

\* The S-O-S patterns completed by the cell at column x, row y: the count
\* sos_made returns on a board of size 2 or more, where none of its usize
\* subtractions goes below zero (sos_made_run below follows them).
sos_made(b, x, y) ==
    CASE b[y][x] = "O" -> sos_made_O(b, x, y)
      [] b[y][x] = "S" -> sos_made_S(b, x, y)
      [] OTHER -> 0

\* The score a move adds: to the left score on Left's turn, else to the right.
\* (Variant: the left score takes the count on either turn.)
left_after_either_turn(t, left, count) == left + count

left_after(t, left, count) == IF t = "Left" THEN left + count ELSE left
right_after(t, right, count) == IF t = "Right" THEN right + count ELSE right

----------------------------------------------------------------------------
(* Win-condition policies *)

\* (Variant: the Classic policy ends the game on the first lead.)
ClassicGame_ends_on_lead(b, filled, left, right) ==
    IF left > right THEN "LeftWin"
    ELSE IF right > left THEN "RightWin"
    ELSE IF board_full(b, filled) THEN "Draw"
    ELSE "Playing"

ClassicGame_get_game_state(b, filled, left, right) ==
    IF ~board_full(b, filled) THEN "Playing"
    ELSE IF left > right THEN "LeftWin"
    ELSE IF right > left THEN "RightWin"
    ELSE "Draw"

\* (Variant: the Simple policy waits for a full board.)
SimpleGame_waits_for_full(b, filled, left, right) ==
    IF ~board_full(b, filled) THEN "Playing"
    ELSE IF left > right THEN "LeftWin"
    ELSE IF right > left THEN "RightWin"
    ELSE "Draw"

\* (Variant: the Simple policy never declares a draw.)
SimpleGame_no_draw(b, filled, left, right) ==
    IF left > right THEN "LeftWin"
    ELSE IF right > left THEN "RightWin"
    ELSE "Playing"

SimpleGame_get_game_state(b, filled, left, right) ==
    IF left > right THEN "LeftWin"
    ELSE IF right > left THEN "RightWin"
    ELSE IF board_full(b, filled) THEN "Draw"
    ELSE "Playing"

get_game_state(gt, b, filled, left, right) ==
    IF gt = "Classic" THEN ClassicGame_get_game_state(b, filled, left, right)
    ELSE SimpleGame_get_game_state(b, filled, left, right)

----------------------------------------------------------------------------
(* Recording *)

Recording_new(mode, board_size) ==
    [mode |-> mode, board_size |-> board_size, moves |-> <<>>, current_move |-> 0]

Move(cell, row, col) == [cell |-> cell, row |-> row, col |-> col]

\* (Variant: the move is put in front.)
add_move_in_front(rec, cell, row, col) ==
    [rec EXCEPT !.moves = <<Move(cell, row, col)>> \o rec.moves]

add_move(rec, cell, row, col) ==
    [rec EXCEPT !.moves = Append(rec.moves, Move(cell, row, col))]

\* (Variant: the cursor is not advanced.)
next_move_stays(rec) ==
    IF Len(rec.moves) > rec.current_move
    THEN [rec |-> rec, move |-> Some(rec.moves[rec.current_move + 1])]
    ELSE [rec |-> rec, move |-> None]

\* (Variant: the cursor is advanced also when no move is left.)
next_move_always_advances(rec) ==
    IF Len(rec.moves) > rec.current_move
    THEN [rec |-> [rec EXCEPT !.current_move = rec.current_move + 1],
          move |-> Some(rec.moves[rec.current_move + 1])]
    ELSE [rec |-> [rec EXCEPT !.current_move = rec.current_move + 1],
          move |-> None]

\* Recording::next_move: the Recording after the call and the move returned.
\* moves is indexed from 1 here, so the move at the cursor before the call is
\* moves[current_move + 1].
next_move(rec) ==
    IF Len(rec.moves) > rec.current_move
    THEN [rec |-> [rec EXCEPT !.current_move = rec.current_move + 1],
          move |-> Some(rec.moves[rec.current_move + 1])]
    ELSE [rec |-> rec, move |-> None]

\* (Variant: the cursor is left where it is.)
reset_keeps_cursor(rec) == rec

\* Recording::reset
reset(rec) == [rec EXCEPT !.current_move = 0]

----------------------------------------------------------------------------
(* Game *)

Call(op, accepted, count) == [op |-> op, accepted |-> accepted, count |-> count]

\* Game::new followed by nothing else: the state after construction.
Game_new(board_size, mode) ==
    /\ board = EmptyBoard(board_size)
    /\ turn = "Left"
    /\ game_type = mode
    /\ cells_filled = 0
    /\ left_score = 0
    /\ right_score = 0
    /\ state = "NotStarted"
    /\ recording = Recording_new(mode, board_size)
    /\ last = Call("new", FALSE, 0)

\* The caller starts a game that has not started (Start button; the tests
\* assign the status directly).
Start ==
    /\ state = "NotStarted"
    /\ state' = "Playing"
    /\ last' = Call("start", FALSE, 0)
    /\ UNCHANGED <<board, turn, game_type, cells_filled, left_score, right_score,
                   recording>>
    /\ UNCHANGED ioVars

\* (Variant: the status is not checked.)
accepts_any_status(b, st, row, col) ==
    valid_cell(b, col, row) /\ b[row][col] = "Empty"

\* The acceptance check of make_move.
accepts(b, st, row, col) ==
    valid_cell(b, col, row) /\ b[row][col] = "Empty" /\ st = "Playing"

\* Game::make_move of src/game.rs: every field of the Game it assigns.
make_move(row, col, input) ==
    IF accepts(board, state, row, col)
    THEN LET b == [board EXCEPT ![row][col] = input]
             filled == cells_filled + 1
             count == sos_made(b, col, row)
             left == left_after(turn, left_score, count)
             right == right_after(turn, right_score, count)
         IN /\ board' = b
            /\ cells_filled' = filled
            /\ left_score' = left
            /\ right_score' = right
            /\ state' = get_game_state(game_type, b, filled, left, right)
            /\ turn' = switch_turn(turn)
            /\ game_type' = game_type
            /\ last' = Call("make_move", TRUE, count)
    ELSE /\ UNCHANGED gameVars
         /\ last' = Call("make_move", FALSE, 0)

\* make_move on the Game of src/game.rs, which owns no Recording.
MakeMove(row, col, input) ==
    /\ make_move(row, col, input)
    /\ UNCHANGED recording
    /\ UNCHANGED ioVars

\* make_move on the Game that owns a Recording: an accepted move is appended.
RecordedMakeMove(row, col, input) ==
    /\ \/ board_len(board) < BoardSize
       \/ Len(recording.moves) < MaxRecorded
       \/ ~accepts(board, state, row, col)
    /\ make_move(row, col, input)
    /\ recording' = IF accepts(board, state, row, col)
                    THEN add_move(recording, input, row, col)
                    ELSE recording
    /\ UNCHANGED ioVars

\* (Variant: the row is taken for the column and the column for the row.)
get_cell_transposed(b, x, y) ==
    IF valid_cell(b, x, y) THEN Ok(b[x][y]) ELSE Err

\* Game::get_cell(x, y): x is the column and y the row.
get_cell(b, x, y) ==
    IF valid_cell(b, x, y) THEN Ok(b[y][x]) ELSE Err

GetCell(x, y) ==
    /\ out' = get_cell(board, x, y)
    /\ last' = Call("get_cell", FALSE, 0)
    /\ UNCHANGED <<gameVars, recording, file, log>>

\* (Variant: the status is reset with the board, as the Reset button does.)
ClearGrid_and_status ==
    /\ board' = EmptyBoard(board_len(board))
    /\ state' = "NotStarted"
    /\ last' = Call("clear_grid", FALSE, 0)
    /\ UNCHANGED <<turn, game_type, cells_filled, left_score, right_score,
                   recording>>
    /\ UNCHANGED ioVars

\* Game::clear_grid
ClearGrid ==
    /\ board' = EmptyBoard(board_len(board))
    /\ last' = Call("clear_grid", FALSE, 0)
    /\ UNCHANGED <<turn, game_type, cells_filled, left_score, right_score, state,
                   recording>>
    /\ UNCHANGED ioVars

----------------------------------------------------------------------------
(* The text format of a Recording.  A text is a sequence of characters, each a
   string of length one. *)

Digits == <<"0", "1", "2", "3", "4", "5", "6", "7", "8", "9">>

DigitValue(c) == CHOOSE d \in 0..9 : Digits[d + 1] = c

\* (Variant: only the last digit is written.)
to_string_last_digit(n) == <<Digits[(n % 10) + 1]>>

\* usize::to_string: the decimal digits of n, without leading zeros.
RECURSIVE to_string(_)
to_string(n) ==
    IF n < 10
    THEN <<Digits[n + 1]>>
    ELSE to_string(n \div 10) \o <<Digits[(n % 10) + 1]>>

mode_code(mode) == IF mode = "Classic" THEN <<"C">> ELSE <<"S">>

cell_code(cell) ==
    CASE cell = "S" -> <<"S">>
      [] cell = "O" -> <<"O">>
      [] OTHER -> <<>>

\* The loop of as_string: one line per move, each begun by a newline.
RECURSIVE moves_as_string(_)
moves_as_string(moves) ==
    IF moves = <<>>
    THEN <<>>
    ELSE LET m == Head(moves)
         IN <<"\n">> \o cell_code(m.cell)
            \o <<",">> \o to_string(m.row) \o <<",">> \o to_string(m.col)
            \o moves_as_string(Tail(moves))

\* Recording::as_string
as_string(rec) ==
    mode_code(rec.mode) \o <<",">> \o to_string(rec.board_size)
    \o moves_as_string(rec.moves)

\* BufRead::read_line: the text up to and including the first newline, and
\* what follows it.
read_line(text) ==
    LET newlines == {i \in 1..Len(text) : text[i] = "\n"}
    IN IF newlines = {}
       THEN [line |-> text, rest |-> <<>>]
       ELSE LET i == CHOOSE i \in newlines : \A j \in newlines : i <= j
            IN [line |-> SubSeq(text, 1, i), rest |-> SubSeq(text, i + 1, Len(text))]

\* The end of a line is removed: a final \n, and a \r before it
\* (recording.rs:79-84 for the first line, BufRead::lines for the others).
strip_newline(line) ==
    IF line # <<>> /\ line[Len(line)] = "\n"
    THEN LET l == SubSeq(line, 1, Len(line) - 1)
         IN IF l # <<>> /\ l[Len(l)] = "\r" THEN SubSeq(l, 1, Len(l) - 1) ELSE l
    ELSE line

\* BufRead::lines: the lines of the text, without their ends.
RECURSIVE br_lines(_)
br_lines(text) ==
    IF text = <<>>
    THEN <<>>
    ELSE <<strip_newline(read_line(text).line)>> \o br_lines(read_line(text).rest)

\* str::split(","): the fields between the commas, at least one.
RECURSIVE split(_)
split(str) ==
    LET commas == {i \in 1..Len(str) : str[i] = ","}
    IN IF commas = {}
       THEN <<str>>
       ELSE LET i == CHOOSE i \in commas : \A j \in commas : i <= j
            IN <<SubSeq(str, 1, i - 1)>> \o split(SubSeq(str, i + 1, Len(str)))

RECURSIVE digits_value(_)
digits_value(str) ==
    IF str = <<>>
    THEN 0
    ELSE digits_value(SubSeq(str, 1, Len(str) - 1)) * 10 + DigitValue(str[Len(str)])

\* str::parse::<usize>: an optional + and then one or more decimal digits.
\* (A number above usize::MAX is an Err as well; the numbers of the texts
\* explored have a few digits.)
parse_usize(str) ==
    LET digits == IF str # <<>> /\ str[1] = "+" THEN Tail(str) ELSE str
    IN IF digits = <<>> \/ \E i \in 1..Len(digits) : \A d \in 1..10 : Digits[d] # digits[i]
       THEN Err
       ELSE Ok(digits_value(digits))

parse_mode(str) == IF str = <<"S">> THEN "Simple" ELSE "Classic"

\* (Variant: a cell code that is not O is read as S.)
parse_cell_S_by_default(str) == IF str = <<"O">> THEN "O" ELSE "S"

parse_cell(str) ==
    CASE str = <<"S">> -> "S"
      [] str = <<"O">> -> "O"
      [] OTHER -> "Empty"

\* The loop of read_from_file over the lines after the first.  The fields
\* line_vec[1] and line_vec[2] of the code are indexed from 0.
RECURSIVE read_moves(_, _)
read_moves(new_record, ls) ==
    IF ls = <<>>
    THEN Some(new_record)
    ELSE LET line_vec == split(Head(ls))
         IN IF Len(line_vec) < 2
            THEN Panic
            ELSE IF ~parse_usize(line_vec[2]).ok
            THEN None
            ELSE IF Len(line_vec) < 3
            THEN Panic
            ELSE IF ~parse_usize(line_vec[3]).ok
            THEN None
            ELSE read_moves(add_move(new_record, parse_cell(line_vec[1]),
                                     parse_usize(line_vec[2]).value,
                                     parse_usize(line_vec[3]).value),
                            Tail(ls))

\* Recording::read_from_file on the file f.
read_from_file(f) ==
    IF ~f.exists
    THEN None
    ELSE LET first == read_line(f.text)
             first_line_vec == split(strip_newline(first.line))
         IN IF Len(first_line_vec) < 2
            THEN Panic
            ELSE IF ~parse_usize(first_line_vec[2]).ok
            THEN None
            ELSE read_moves(Recording_new(parse_mode(first_line_vec[1]),
                                          parse_usize(first_line_vec[2]).value),
                            br_lines(first.rest))

----------------------------------------------------------------------------
(* The Recording on its own: the calls of its owner *)

\* An entry of the log of calls.
Added == [op |-> "add_move"]
Asked(result) == [op |-> "next_move", result |-> result]
CursorSet(op) == [op |-> op]

AddMove(cell, row, col) ==
    /\ Len(recording.moves) < MaxMoves
    /\ recording' = add_move(recording, cell, row, col)
    /\ log' = Append(log, Added)
    /\ last' = Call("add_move", FALSE, 0)
    /\ UNCHANGED <<gameVars, file, out>>

NextMove ==
    /\ Len(log) < MaxLog
    /\ recording' = next_move(recording).rec
    /\ out' = next_move(recording).move
    /\ log' = Append(log, Asked(next_move(recording).move))
    /\ last' = Call("next_move", FALSE, 0)
    /\ UNCHANGED <<gameVars, file>>

Reset ==
    /\ recording' = reset(recording)
    /\ log' = <<CursorSet("reset")>>
    /\ last' = Call("reset", FALSE, 0)
    /\ UNCHANGED <<gameVars, file, out>>

----------------------------------------------------------------------------
(* The recording file: written by Save, picked by Load, and between the two
   in the hands of the user *)

\* Recording::write_to_file: the file is created with the text of as_string.
\* (One file is followed: the Recording is written once.)
WriteToFile ==
    /\ ~file.exists
    /\ file' = File(as_string(recording))
    /\ last' = Call("write_to_file", FALSE, 0)
    /\ UNCHANGED <<gameVars, recording, out, log>>

\* The characters an edit puts into a text.
EditChars == {",", "\n", "\r", "x"}

\* The texts one edit away from text: a character removed, replaced or
\* inserted.
OneEdit(text) ==
    LET n == Len(text)
    IN {SubSeq(text, 1, i - 1) \o SubSeq(text, i + 1, n) : i \in 1..n}
       \cup {SubSeq(text, 1, i - 1) \o <<c>> \o SubSeq(text, i + 1, n) :
                i \in 1..n, c \in EditChars}
       \cup {SubSeq(text, 1, i) \o <<c>> \o SubSeq(text, i + 1, n) :
                i \in 0..n, c \in EditChars}

\* The file the Recording was written to is changed outside the program, by
\* one edit, before it is picked in the Load dialog.
EditFile ==
    /\ file = File(as_string(recording))
    /\ \E text \in OneEdit(file.text) : file' = File(text)
    /\ last' = Call("edit", FALSE, 0)
    /\ UNCHANGED <<gameVars, recording, out, log>>

\* Recording::read_from_file on the file as it is now.
ReadFromFile ==
    /\ out' = read_from_file(file)
    /\ last' = Call("read_from_file", FALSE, 0)
    /\ UNCHANGED <<gameVars, recording, file, log>>

----------------------------------------------------------------------------
(* Replay: a Recording played back through a Game, one move per update *)

\* The Game as a value: the fields of the struct.
GameValue ==
    [board |-> board, turn |-> turn, game_type |-> game_type,
     cells_filled |-> cells_filled, left_score |-> left_score,
     right_score |-> right_score, state |-> state]

\* Game::new followed by the assignment of Playing to its status, as Start
\* and Load do.
Game_started(board_size, mode) ==
    [board |-> EmptyBoard(board_size), turn |-> "Left", game_type |-> mode,
     cells_filled |-> 0, left_score |-> 0, right_score |-> 0, state |-> "Playing"]

\* Game::make_move as a function of the Game g it is called on.
Game_make_move(g, row, col, input) ==
    IF accepts(g.board, g.state, row, col)
    THEN LET b == [g.board EXCEPT ![row][col] = input]
             filled == g.cells_filled + 1
             count == sos_made(b, col, row)
             left == left_after(g.turn, g.left_score, count)
             right == right_after(g.turn, g.right_score, count)
         IN [board |-> b,
             turn |-> switch_turn(g.turn),
             game_type |-> g.game_type,
             cells_filled |-> filled,
             left_score |-> left,
             right_score |-> right,
             state |-> get_game_state(g.game_type, b, filled, left, right)]
    ELSE g

\* (Variant: the row and the column of the recorded move are exchanged.)
replay_move_transposed(g, m) == Game_make_move(g, m.col, m.row, m.cell)

\* The replayed move is made with the cell, row and column recorded.
replay_move(g, m) == Game_make_move(g, m.row, m.col, m.cell)

\* (Variant: a Recording that has run out leaves the game Playing.)
update_replay_keeps_playing(g, rec) ==
    IF g.state = "Playing"
    THEN LET r == next_move(rec)
         IN IF r.move = None
            THEN [game |-> g, rec |-> r.rec]
            ELSE [game |-> replay_move(g, r.move.value), rec |-> r.rec]
    ELSE [game |-> g, rec |-> rec]

\* One pass of the replay branch of GameInterface::update on the Game g and
\* the loaded Recording rec: while the game is Playing the next move of the
\* Recording is made, and a Recording that has run out ends the game as Draw.
update_replay(g, rec) ==
    IF g.state = "Playing"
    THEN LET r == next_move(rec)
         IN IF r.move = None
            THEN [game |-> [g EXCEPT !.state = "Draw"], rec |-> r.rec]
            ELSE [game |-> replay_move(g, r.move.value), rec |-> r.rec]
    ELSE [game |-> g, rec |-> rec]

\* The replay branch of GameInterface::update, on the Game and the loaded
\* Recording of the state; both players are set to computer by Load.
UpdateReplay ==
    /\ state = "Playing"
    /\ LET u == update_replay(GameValue, recording)
       IN /\ board' = u.game.board
          /\ turn' = u.game.turn
          /\ game_type' = u.game.game_type
          /\ cells_filled' = u.game.cells_filled
          /\ left_score' = u.game.left_score
          /\ right_score' = u.game.right_score
          /\ state' = u.game.state
          /\ recording' = u.rec
          /\ last' = Call("update", u.game.cells_filled > cells_filled, 0)
    /\ UNCHANGED ioVars

----------------------------------------------------------------------------
(* Specifications *)

\* No file has been written or read and no query has been made.
NoIo == file = NoFile /\ out = None /\ log = <<>>

\* The rows and columns make_move is called with.
Coords == 0..(board_len(board) - 1 + OobMargin)

\* Games of start and make_move with S or O.
Init == NoIo /\ \E mode \in Mode : Game_new(BoardSize, mode)

Next ==
    \/ Start
    \/ \E row \in Coords, col \in Coords, input \in {"S", "O"} :
           MakeMove(row, col, input)

Spec == Init /\ [][Next]_vars

\* Games of start, make_move with any cell value at any cell of the board, and
\* clear_grid.
NextAll ==
    \/ Start
    \/ \E row \in DOMAIN board, col \in DOMAIN board, input \in Cell :
           MakeMove(row, col, input)
    \/ ClearGrid

SpecAll == Init /\ [][NextAll]_vars

\* Recorded games: the Game that owns a Recording.
InitRec ==
    NoIo /\ \E n \in {BoardSize - 1, BoardSize}, mode \in Mode : Game_new(n, mode)

NextRec ==
    \/ Start
    \/ \E row \in Coords, col \in Coords, input \in {"S", "O"} :
           RecordedMakeMove(row, col, input)

SpecRec == InitRec /\ [][NextRec]_vars

\* Recorded games whose board is cleared at any time, before the start, during
\* play and after the end.  A game is followed for BoardSize accepted moves,
\* the cells of one S-O-S line; a Simple game can be won by then.
NextClear ==
    \/ Start
    \/ \E row \in Coords, col \in Coords, input \in {"S", "O"} :
           /\ cells_filled < BoardSize
           /\ RecordedMakeMove(row, col, input)
    \/ ClearGrid

SpecClear == InitRec /\ [][NextClear]_vars

\* Games whose cells are read, at any time and at any row and column that
\* make_move is called with.  A game is followed for BoardSize accepted moves.
NextCell ==
    \/ Start
    \/ \E row \in Coords, col \in Coords, input \in {"S", "O"} :
           /\ cells_filled < BoardSize
           /\ MakeMove(row, col, input)
    \/ \E x \in Coords, y \in Coords : GetCell(x, y)

SpecCell == InitRec /\ [][NextCell]_vars

\* The moves of the full games of the tests of game.rs, as make_move is called
\* there: left_player_wins_classic_game and players_draw_simple_game.
left_player_wins_classic_game ==
    <<Move("S", 0, 0), Move("O", 1, 0), Move("S", 2, 0),
      Move("O", 0, 1), Move("S", 1, 1), Move("S", 2, 1),
      Move("O", 0, 2), Move("S", 1, 2), Move("S", 2, 2)>>

players_draw_simple_game ==
    <<Move("S", 0, 0), Move("S", 1, 0), Move("S", 2, 0),
      Move("S", 0, 1), Move("S", 1, 1), Move("S", 2, 1),
      Move("S", 0, 2), Move("S", 1, 2), Move("S", 2, 2)>>

\* A file that does not come from a game: the second move is at a cell that is
\* taken and the fourth at a cell outside the board, and make_move ignores
\* both.
file_with_ignored_moves ==
    <<Move("S", 0, 0), Move("O", 0, 0), Move("O", 1, 0),
      Move("S", 3, 0), Move("S", 2, 0), Move("O", 0, 1),
      Move("S", 1, 1), Move("S", 2, 1), Move("O", 0, 2)>>

\* The Recordings that are loaded: the moves of a test game or of the file
\* above, or the first of them, in either mode.
LoadedRecordings ==
    {[mode |-> mode, board_size |-> BoardSize, moves |-> SubSeq(game, 1, k),
      current_move |-> 0] :
        mode \in Mode,
        game \in {left_player_wins_classic_game, players_draw_simple_game,
                  file_with_ignored_moves},
        k \in 0..(BoardSize * BoardSize)}

\* Load: the Recording read is kept, and a Game of its mode and board size is
\* created and started.
Load ==
    /\ NoIo
    /\ recording \in LoadedRecordings
    /\ LET g == Game_started(recording.board_size, recording.mode)
       IN /\ board = g.board
          /\ turn = g.turn
          /\ game_type = g.game_type
          /\ cells_filled = g.cells_filled
          /\ left_score = g.left_score
          /\ right_score = g.right_score
          /\ state = g.state
    /\ last = Call("load", FALSE, 0)

NextReplay == UpdateReplay

SpecReplay == Load /\ [][NextReplay]_vars

\* The replay as the event loop runs it: update requests a repaint whenever it
\* has replayed (main.rs:226), so while the game is Playing another update
\* follows.
SpecReplayFair == Load /\ [][NextReplay]_vars /\ WF_vars(UpdateReplay)

\* A Recording on its own: moves are added, asked for and the cursor is reset,
\* in any order.
LogMoves == {"S", "O"} \X (0..1) \X (0..1)

InitLog ==
    /\ file = NoFile
    /\ out = None
    /\ log = <<CursorSet("new")>>
    /\ \E mode \in Mode : Game_new(BoardSize, mode)

NextLog ==
    \/ \E m \in LogMoves : AddMove(m[1], m[2], m[3])
    \/ NextMove
    \/ Reset

SpecLog == InitLog /\ [][NextLog]_vars

\* Recordings and their files: a Recording of any mode, of moves with any cell
\* value, with its cursor at either end, is written to a file; the file is
\* read back as written or after one edit, or was never written.
FileSizes == {3, 10}
FileMoves == {Move(cell, rc[1], rc[2]) : cell \in Cell, rc \in {<<0, 1>>, <<10, 2>>}}

RECURSIVE SeqsUpTo(_, _)
SeqsUpTo(S, n) ==
    IF n = 0
    THEN {<<>>}
    ELSE SeqsUpTo(S, n - 1)
         \cup {Append(q, x) : q \in {q \in SeqsUpTo(S, n - 1) : Len(q) = n - 1}, x \in S}

FileRecordings ==
    {[mode |-> mode, board_size |-> size, moves |-> moves, current_move |-> cursor] :
        mode \in Mode, size \in FileSizes, moves \in SeqsUpTo(FileMoves, MaxFileMoves),
        cursor \in 0..MaxFileMoves}

InitFile ==
    /\ NoIo
    /\ recording \in {r \in FileRecordings : r.current_move \in {0, Len(r.moves)}}
    /\ board = EmptyBoard(BoardSize)
    /\ turn = "Left"
    /\ game_type = recording.mode
    /\ cells_filled = 0
    /\ left_score = 0
    /\ right_score = 0
    /\ state = "NotStarted"
    /\ last = Call("new", FALSE, 0)

NextFile ==
    \/ WriteToFile
    \/ EditFile
    \/ ReadFromFile

SpecFile == InitFile /\ [][NextFile]_vars

----------------------------------------------------------------------------
(* Board<T> of src/game/board.rs, the grid of the Game of src/game/mod.rs *)

\* The values the cells of a Board hold: the fill of the tests of board.rs
\* and the value they write.
GridValues == {0, 1}

\* Board::new(width, height, fill): height rows of width cells.
Board_new(width, height, fill) ==
    [y \in 0..(height - 1) |-> [x \in 0..(width - 1) |-> fill]]

\* Board::is_valid
is_valid(grid, x, y) ==
    x < Cardinality(DOMAIN grid[0]) /\ y < Cardinality(DOMAIN grid)

\* Board::get_value
get_value(grid, x, y) ==
    IF is_valid(grid, x, y) THEN Ok(grid[y][x]) ELSE Err

\* (Variant: the whole row is written.)
set_cell_whole_row(grid, x, y, input) ==
    IF is_valid(grid, x, y)
    THEN [grid |-> [grid EXCEPT ![y] = [c \in DOMAIN grid[y] |-> input]],
          result |-> Ok(<<>>)]
    ELSE [grid |-> grid, result |-> Err]

\* Board::set_cell: the grid after the call and what the call returns.
set_cell(grid, x, y, input) ==
    IF is_valid(grid, x, y)
    THEN [grid |-> [grid EXCEPT ![y][x] = input], result |-> Ok(<<>>)]
    ELSE [grid |-> grid, result |-> Err]

GetValue(x, y) ==
    /\ last' = Call("get_value", FALSE, 0)
    /\ out' = get_value(board, x, y)
    /\ UNCHANGED <<gameVars, recording, file, log>>

SetCell(x, y, input) ==
    /\ last' = Call("set_cell", FALSE, 0)
    /\ board' = set_cell(board, x, y, input).grid
    /\ out' = set_cell(board, x, y, input).result
    /\ UNCHANGED <<turn, game_type, cells_filled, left_score, right_score, state,
                   recording, file, log>>

\* Board::resize_reset
ResizeReset(width, height, fill) ==
    /\ board' = Board_new(width, height, fill)
    /\ last' = Call("resize_reset", FALSE, 0)
    /\ UNCHANGED <<turn, game_type, cells_filled, left_score, right_score, state,
                   recording>>
    /\ UNCHANGED ioVars

\* A Board on its own: of any width and height from 1 to the bounds, wider
\* than high, higher than wide or square, read and written at columns
\* 0 .. GridWidth and rows 0 .. GridHeight, the last of them outside every
\* grid.  A grid without rows (height 0) is not built: the size of a Board is
\* above 0 by the callers' care, and is_valid reads grid[0].
InitBoard ==
    /\ NoIo
    /\ \E width \in 1..GridWidth, height \in 1..GridHeight, fill \in GridValues :
           board = Board_new(width, height, fill)
    /\ turn = "Left"
    /\ game_type = "Simple"
    /\ cells_filled = 0
    /\ left_score = 0
    /\ right_score = 0
    /\ state = "NotStarted"
    /\ recording = Recording_new("Simple", BoardSize)
    /\ last = Call("new", FALSE, 0)

NextBoard ==
    \/ \E x \in 0..GridWidth, y \in 0..GridHeight : GetValue(x, y)
    \/ \E x \in 0..GridWidth, y \in 0..GridHeight, input \in GridValues :
           SetCell(x, y, input)
    \/ \E width \in 1..GridWidth, height \in 1..GridHeight, fill \in GridValues :
           ResizeReset(width, height, fill)

SpecBoard == InitBoard /\ [][NextBoard]_vars

\* Games of start, make_move with S or O at any cell of the board, and
\* clear_grid at any time.
NextPlay ==
    \/ Start
    \/ \E row \in DOMAIN board, col \in DOMAIN board, input \in {"S", "O"} :
           MakeMove(row, col, input)
    \/ ClearGrid

SpecPlay == Init /\ [][NextPlay]_vars

----------------------------------------------------------------------------
(* sos_made as it runs: usize arithmetic and indexing that may panic *)

\* A subtraction of usize that goes below zero panics when the program is
\* built with overflow checks (debug) and wraps around when it is built
\* without them (release).
Builds == {"debug", "release"}

\* usize is 64 bits wide on the targets of the program.  The integers of the
\* model are 32 bits wide: the modulus taken here lies beyond every index of a
\* board, as 2^64 does.
UsizeModulus == 2^30

\* a - b on usize: the difference, or None when the subtraction panics.
usize_sub(a, b, build) ==
    IF a >= b
    THEN Some(a - b)
    ELSE IF build = "debug" THEN None ELSE Some(a - b + UsizeModulus)

\* What a piece of sos_made comes to: it adds to count, or the thread panics.
Counted(count) == [panic |-> FALSE, count |-> count]
Aborted == [panic |-> TRUE, count |-> 0]

\* One statement after another; nothing runs after a panic.
Then(first, second) ==
    IF first.panic
    THEN Aborted
    ELSE IF second.panic THEN Aborted ELSE Counted(first.count + second.count)

\* self.board[r][c] can be read: an index outside the board panics, and so
\* does an index y-1, y-2, x-1 or x-2 that goes below zero, where it is
\* computed (debug) or where it is used (release).
in_board(b, r, c) == r \in DOMAIN b /\ c \in DOMAIN b[r]

\* if self.board[r1][c1] == v1 && self.board[r2][c2] == v2 { count += 1 }
sos_pattern(b, r1, c1, v1, r2, c2, v2) ==
    IF ~in_board(b, r1, c1)
    THEN Aborted
    ELSE IF b[r1][c1] # v1
         THEN Counted(0)
         ELSE IF ~in_board(b, r2, c2)
              THEN Aborted
              ELSE Counted(B2N(b[r2][c2] = v2))

\* if a > k { body }
if_above(a, k, body) == IF a > k THEN body ELSE Counted(0)

\* if a < self.board.len()-k { body }
if_below(a, n, k, build, body) ==
    LET limit == usize_sub(n, k, build) IN
    IF ~limit.some
    THEN Aborted
    ELSE IF a < limit.value THEN body ELSE Counted(0)

\* if a > 0 && a < self.board.len()-1 { body }
if_inside(a, n, build, body) == if_above(a, 0, if_below(a, n, 1, build, body))

\* sos_made, arm Cell::O
sos_made_O_run(b, x, y, build) ==
    LET n == board_len(b) IN
    Then(if_inside(y, n, build,
             Then(sos_pattern(b, y - 1, x, "S", y + 1, x, "S"),
                  if_inside(x, n, build,
                      Then(sos_pattern(b, y - 1, x + 1, "S", y + 1, x - 1, "S"),
                           sos_pattern(b, y + 1, x + 1, "S", y - 1, x - 1, "S"))))),
         if_inside(x, n, build, sos_pattern(b, y, x + 1, "S", y, x - 1, "S")))

\* sos_made, arm Cell::S
sos_made_S_run(b, x, y, build) ==
    LET n == board_len(b) IN
    Then(if_above(y, 1,
             Then(sos_pattern(b, y - 1, x, "O", y - 2, x, "S"),
             Then(if_above(x, 1,
                      sos_pattern(b, y - 1, x - 1, "O", y - 2, x - 2, "S")),
                  if_below(x, n, 2, build,
                      sos_pattern(b, y - 1, x + 1, "O", y - 2, x + 2, "S"))))),
    Then(if_below(y, n, 2, build,
             Then(sos_pattern(b, y + 1, x, "O", y + 2, x, "S"),
             Then(if_above(x, 1,
                      sos_pattern(b, y + 1, x - 1, "O", y + 2, x - 2, "S")),
                  if_below(x, n, 2, build,
                      sos_pattern(b, y + 1, x + 1, "O", y + 2, x + 2, "S"))))),
    Then(if_above(x, 1, sos_pattern(b, y, x - 1, "O", y, x - 2, "S")),
         if_below(x, n, 2, build, sos_pattern(b, y, x + 1, "O", y, x + 2, "S")))))

\* sos_made: the count it returns, or the panic it ends in.
sos_made_run(b, x, y, build) ==
    CASE b[y][x] = "O" -> sos_made_O_run(b, x, y, build)
      [] b[y][x] = "S" -> sos_made_S_run(b, x, y, build)
      [] OTHER -> Counted(0)

\* make_move as it runs, in either build.  When sos_made panics the cell has
\* been written and counted (game.rs:73-74) and nothing else is assigned; the
\* Game is not used after the panic.
MakeMoveRun(row, col, input) ==
    /\ last.op # "panic"
    /\ \E build \in Builds :
           IF /\ accepts(board, state, row, col)
              /\ sos_made_run([board EXCEPT ![row][col] = input], col, row, build).panic
           THEN /\ board' = [board EXCEPT ![row][col] = input]
                /\ cells_filled' = cells_filled + 1
                /\ last' = Call("panic", TRUE, 0)
                /\ UNCHANGED <<turn, game_type, left_score, right_score, state,
                               recording>>
                /\ UNCHANGED ioVars
           ELSE MakeMove(row, col, input)

\* Games on boards of every size from 1 to BoardSize, of start and make_move
\* with S or O at any cell of the board.
InitSize == NoIo /\ \E n \in 1..BoardSize, mode \in Mode : Game_new(n, mode)

NextSize ==
    \/ Start
    \/ \E row \in DOMAIN board, col \in DOMAIN board, input \in {"S", "O"} :
           MakeMoveRun(row, col, input)

SpecSize == InitSize /\ [][NextSize]_vars

\* The same games when the players keep playing: a game that can be started
\* is started, and while a move can be accepted (the status is Playing and a
\* cell is Empty) an accepted move is made.
LegalMove ==
    \E row \in DOMAIN board, col \in DOMAIN board, input \in {"S", "O"} :
        /\ accepts(board, state, row, col)
        /\ MakeMoveRun(row, col, input)

SpecSizeFair ==
    InitSize /\ [][NextSize]_vars /\ WF_vars(Start) /\ WF_vars(LegalMove)

\* Game::make_random_move.  It returns at once unless the status is Playing.
\* It draws S or O, then draws a row and a column again and again until the
\* cell is Empty: every Empty cell can be the one it stops at, and with no
\* Empty cell the search never ends.  It then calls make_move.
MakeRandomMove ==
    /\ last.op # "panic"
    /\ IF state # "Playing"
       THEN /\ last' = Call("make_random_move", FALSE, 0)
            /\ UNCHANGED <<gameVars, recording>>
            /\ UNCHANGED ioVars
       ELSE IF \A row \in DOMAIN board, col \in DOMAIN board :
                   board[row][col] # "Empty"
            THEN /\ last' = Call("hang", FALSE, 0)
                 /\ UNCHANGED <<gameVars, recording>>
                 /\ UNCHANGED ioVars
            ELSE \E input \in {"S", "O"}, row \in DOMAIN board, col \in DOMAIN board :
                     /\ board[row][col] = "Empty"
                     /\ MakeMoveRun(row, col, input)

\* clear_grid on a Game whose thread has not panicked.
ClearGridRun == last.op # "panic" /\ ClearGrid

\* Games on the boards of size 1 and above that are smaller than BoardSize, of
\* start, make_move with any cell value at any cell of the board, clear_grid
\* and make_random_move.
InitRandom == NoIo /\ \E n \in 1..(BoardSize - 1), mode \in Mode : Game_new(n, mode)

NextRandom ==
    \/ Start
    \/ \E row \in DOMAIN board, col \in DOMAIN board, input \in Cell :
           MakeMoveRun(row, col, input)
    \/ ClearGridRun
    \/ MakeRandomMove

SpecRandom == InitRandom /\ [][NextRandom]_vars

----------------------------------------------------------------------------
(* What the properties below speak of, stated without the engine's helpers *)

Terminal(st) == st \in {"LeftWin", "RightWin", "Draw"}

\* A make_move call is identified by its arguments: a step is the call
\* make_move(row, col, input) when it satisfies the handler for them.
CallArgs == Coords \X Coords \X Cell

\* The acceptance condition in the words of the specification, on the state
\* before the call.
Acceptable(row, col) ==
    /\ row < board_len(board)
    /\ col < board_len(board)
    /\ board[row][col] = "Empty"
    /\ state = "Playing"

\* The four directions of a straight line, as (row step, column step).
LineDirs == {<<0, 1>>, <<1, 0>>, <<1, 1>>, <<1, -1>>}

OnBoard(b, row, col) == row \in DOMAIN b /\ col \in DOMAIN b

\* A straight 3-cell line is named once, by its middle cell and its direction:
\* l = <<row, col, dir>>.  It reads S-O-S when its three cells are on the board
\* and hold S, O, S.
IsSosLine(b, l) ==
    /\ OnBoard(b, l[1], l[2])
    /\ OnBoard(b, l[1] - l[3][1], l[2] - l[3][2])
    /\ OnBoard(b, l[1] + l[3][1], l[2] + l[3][2])
    /\ b[l[1]][l[2]] = "O"
    /\ b[l[1] - l[3][1]][l[2] - l[3][2]] = "S"
    /\ b[l[1] + l[3][1]][l[2] + l[3][2]] = "S"

\* The lines of the board that read S-O-S.
SosLines(b) == {l \in (DOMAIN b) \X (DOMAIN b) \X LineDirs : IsSosLine(b, l)}

\* Those of them that contain the cell (row, col): the cell is the middle or
\* one of the two ends.
SosLinesThrough(b, row, col) ==
    {l \in {<<row + k * d[1], col + k * d[2], d>> : k \in {-1, 0, 1}, d \in LineDirs} :
        IsSosLine(b, l)}

NoEmptyCell(b) == \A row \in DOMAIN b, col \in DOMAIN b : b[row][col] # "Empty"

ScoreComparison(left, right) ==
    IF left > right THEN "LeftWin" ELSE IF right > left THEN "RightWin" ELSE "Draw"

----------------------------------------------------------------------------
(* Properties *)

\* C1: a make_move call that fails the acceptance check (row or column >= board
\* size, target cell not Empty, or status not Playing) leaves the board, both
\* scores, the turn, the status, the filled-cell count and the length of the
\* Recording unchanged: a step that changes any of them is no such call.
C1_RejectedMoveChangesNothing ==
    [][ ~(UNCHANGED gameVars /\ Len(recording'.moves) = Len(recording.moves))
        => \A a \in CallArgs :
              make_move(a[1], a[2], a[3]) => Acceptable(a[1], a[2]) ]_vars

\* C1 witness: a call was rejected after the game had been won, with moves
\* on the board and in the Recording.
C1_Witness ==
    /\ last = Call("make_move", FALSE, 0)
    /\ state = "LeftWin"
    /\ Len(recording.moves) = MaxRecorded

\* C2 (as claimed): an accepted move writes the cell, increments the filled-cell
\* count by one, and keeps the turn if and only if it completed at least one
\* S-O-S line.
C2_TurnKeptIffScored ==
    [][ last'.op = "make_move" /\ last'.accepted
        => \A a \in CallArgs :
              (Acceptable(a[1], a[2]) /\ make_move(a[1], a[2], a[3]))
              => /\ board'[a[1]][a[2]] = a[3]
                 /\ cells_filled' = cells_filled + 1
                 /\ (turn' = turn) <=> (SosLinesThrough(board', a[1], a[2]) # {}) ]_vars

\* C3: the points an accepted move adds equal the number of distinct in-bounds
\* straight 3-cell lines that contain the written cell and read S-O-S after the
\* write: lines it centres, at most 4, for a placed O; lines it ends for a
\* placed S; and the count is 0 at every cell that holds Empty.
C3_PointsAreLinesThroughCell ==
    [][ last'.op = "make_move" /\ last'.accepted
        => /\ \A a \in CallArgs :
                 (Acceptable(a[1], a[2]) /\ make_move(a[1], a[2], a[3]))
                 => LET lines == SosLinesThrough(board', a[1], a[2])
                        added == (left_score' + right_score') - (left_score + right_score)
                    IN /\ added = Cardinality(lines)
                       /\ added = last'.count
                       /\ a[3] = "O" =>
                             added <= 4 /\ \A l \in lines : <<l[1], l[2]>> = <<a[1], a[2]>>
                       /\ a[3] = "S" => \A l \in lines : <<l[1], l[2]>> # <<a[1], a[2]>>
           /\ \A row \in DOMAIN board, col \in DOMAIN board :
                 board[row][col] = "Empty" => sos_made(board, col, row) = 0 ]_vars

\* C3 witness: one move completed several lines at once.
C3_Witness ==
    /\ last.op = "make_move"
    /\ last.count >= 2
    /\ Cardinality(SosLines(board)) = left_score + right_score

\* C4: an accepted move adds its S-O-S count to the score of the player whose
\* turn it was at the call and leaves the other score unchanged; no step
\* decreases a score.
C4_ScoreGoesToMover ==
    [][ /\ left_score' >= left_score
        /\ right_score' >= right_score
        /\ last'.op = "make_move" /\ last'.accepted
           => \A a \in CallArgs :
                 (Acceptable(a[1], a[2]) /\ make_move(a[1], a[2], a[3]))
                 => LET n == Cardinality(SosLinesThrough(board', a[1], a[2]))
                    IN /\ turn = "Left" =>
                            left_score' = left_score + n /\ right_score' = right_score
                       /\ turn = "Right" =>
                            right_score' = right_score + n /\ left_score' = left_score ]_vars

\* C4 witness: both players have scored.
C4_Witness == left_score > 0 /\ right_score > 0 /\ last.count > 0

\* C5: in Classic mode, after an accepted move the status is Playing while the
\* filled-cell count is below size*size, whatever the scores; on the move that
\* makes the count size*size the status is the comparison of the scores.
C5_ClassicEndsOnlyWhenFull ==
    [][ game_type = "Classic" /\ last'.op = "make_move" /\ last'.accepted
        => \A a \in CallArgs :
              (Acceptable(a[1], a[2]) /\ make_move(a[1], a[2], a[3]))
              => LET size == board_len(board)
                 IN /\ cells_filled' < size * size => state' = "Playing"
                    /\ cells_filled' = size * size =>
                          state' = ScoreComparison(left_score', right_score')
                    /\ cells_filled' <= size * size ]_vars

\* C5 witness: a Classic game was played to the last cell although one player
\* led by two or more, and ended with the win of that player.
C5_Witness ==
    /\ game_type = "Classic"
    /\ state = "RightWin"
    /\ last.op = "make_move" /\ last.accepted
    /\ right_score > left_score + 1

\* C6 (as claimed): in Classic mode every state with a terminal status has no
\* Empty cell.
C6_ClassicTerminalBoardFull ==
    (game_type = "Classic" /\ Terminal(state)) => NoEmptyCell(board)

\* C6 (amended): in Classic mode every state with a terminal status has a
\* filled-cell count of size*size: the game ends on the size*size-th accepted
\* move and not before.
C6_ClassicTerminalCountFull ==
    (game_type = "Classic" /\ Terminal(state))
    => cells_filled = board_len(board) * board_len(board)

\* C6 witness: a Classic game has ended, with a board that is completely filled.
C6_Witness ==
    /\ game_type = "Classic"
    /\ Terminal(state)
    /\ NoEmptyCell(board)
    /\ left_score # right_score

\* C7: in Simple mode the scores are equal at every accepted move, and the move
\* after which they differ sets the status to the win of the player ahead, in
\* that move, whether or not Empty cells remain.
C7_SimpleWinOnFirstLead ==
    [][ game_type = "Simple" /\ last'.op = "make_move" /\ last'.accepted
        => \A a \in CallArgs :
              (Acceptable(a[1], a[2]) /\ make_move(a[1], a[2], a[3]))
              => /\ left_score = right_score
                 /\ left_score' > right_score' => state' = "LeftWin"
                 /\ right_score' > left_score' => state' = "RightWin" ]_vars

\* C7 witness: a Simple game won while Empty cells remain.
C7_Witness ==
    /\ game_type = "Simple"
    /\ state = "RightWin"
    /\ last.op = "make_move" /\ last.accepted
    /\ ~NoEmptyCell(board)

\* C8: in Simple mode, after an accepted move with tied scores the status is
\* Draw if and only if the move filled the board (no cell is Empty; the
\* filled-cell count is size*size), and Playing otherwise.
C8_SimpleDrawIffFull ==
    [][ game_type = "Simple" /\ last'.op = "make_move" /\ last'.accepted
        => \A a \in CallArgs :
              (Acceptable(a[1], a[2]) /\ make_move(a[1], a[2], a[3])
                  /\ left_score' = right_score')
              => /\ state' = "Draw" <=> NoEmptyCell(board')
                 /\ state' = "Draw" <=> cells_filled' = board_len(board) * board_len(board)
                 /\ ~NoEmptyCell(board') => state' = "Playing" ]_vars

\* C8 witness: a Simple game drawn on the move that filled the board.
C8_Witness ==
    /\ game_type = "Simple"
    /\ state = "Draw"
    /\ last.op = "make_move" /\ last.accepted
    /\ NoEmptyCell(board)

\* C9: once the status is LeftWin, RightWin or Draw, no make_move or clear_grid
\* call changes the status, a score or the turn.
C9_TerminalIsFinal ==
    [][ Terminal(state)
        => /\ state' = state
           /\ left_score' = left_score
           /\ right_score' = right_score
           /\ turn' = turn ]_vars

\* C9 witness: make_move was called on a game already won.
C9_Witness ==
    /\ state = "LeftWin"
    /\ last = Call("make_move", FALSE, 0)
    /\ ~NoEmptyCell(board)

\* C10: an accepted make_move appends exactly its (cell, row, col) to the
\* Recording, a rejected one (a call that left the game as it was) appends
\* nothing, neither moves the replay cursor nor changes an earlier entry; so the
\* Recording holds the accepted moves in the order played, one per filled cell.
C10_RecordingIsAcceptedMoves ==
    [][ /\ last'.op = "make_move"
           => IF UNCHANGED gameVars
              THEN recording' = recording
              ELSE \A a \in CallArgs :
                      make_move(a[1], a[2], a[3])
                      => /\ Acceptable(a[1], a[2])
                         /\ recording'.moves =
                               recording.moves \o <<Move(a[3], a[1], a[2])>>
                         /\ recording'.current_move = recording.current_move
        /\ Len(recording'.moves) = cells_filled'
        /\ \A i \in 1..Len(recording'.moves) :
              LET m == recording'.moves[i]
              IN board'[m.row][m.col] = m.cell ]_vars

\* C10 witness: a Recording of several moves, after a call that was rejected.
C10_Witness ==
    /\ Len(recording.moves) = MaxRecorded
    /\ last = Call("make_move", FALSE, 0)
    /\ recording.current_move = 0
    /\ recording.moves[1] # recording.moves[MaxRecorded]

\* k passes of the replay branch, from the Game g and the Recording rec.
RECURSIVE Replayed(_, _, _)
Replayed(g, rec, k) ==
    IF k = 0
    THEN [game |-> g, rec |-> rec]
    ELSE LET before == Replayed(g, rec, k - 1)
         IN update_replay(before.game, before.rec)

NoAddBetween ==
    \A i, j \in 1..Len(log) :
        (i < j /\ log[i].op = "next_move") => log[j].op = "next_move"

\* The results of the next_move calls of the log, in the order of the calls.
Results ==
    LET asked == SelectSeq(log, LAMBDA e : e.op = "next_move")
    IN [i \in 1..Len(asked) |-> asked[i].result]

\* C12: on a Recording of N moves whose cursor was at 0, with no add_move
\* between the calls, the i-th consecutive next_move call returns the i-th move
\* added for i in 1..N, and None for i = N+1 and after; on an empty Recording
\* the first call returns None.
C12_NextMoveYieldsInOrder ==
    NoAddBetween
    => \A i \in 1..Len(Results) :
          Results[i] = IF i <= Len(recording.moves)
                       THEN Some(recording.moves[i])
                       ELSE None

\* C12 witness: N+1 calls were made on a Recording of N = MaxMoves different
\* moves, and the last of them returned None.
C12_Witness ==
    /\ NoAddBetween
    /\ Len(recording.moves) = MaxMoves
    /\ recording.moves[1] # recording.moves[MaxMoves]
    /\ Len(Results) = MaxMoves + 1
    /\ out = None
    /\ last.op = "next_move"

\* The moves of a Recording are all S or O.
OnlySO(rec) == \A i \in 1..Len(rec.moves) : rec.moves[i].cell \in {"S", "O"}

\* The file was read just now and holds the text the Recording was written as.
ReadBackAsWritten ==
    /\ last.op = "read_from_file"
    /\ file = File(as_string(recording))

\* C13 (as claimed): a Recording r of S and O moves that is written and read
\* back is returned equal to r in mode, board_size, moves and cursor, whatever
\* the cursor of r.
C13_RoundTripEqualWithCursor ==
    (ReadBackAsWritten /\ OnlySO(recording)) => out = Some(recording)

\* C13 (amended): a Recording r of S and O moves that is written and read back
\* is returned equal to r in mode, board_size and moves and with its cursor at
\* 0: equal to r with its cursor reset, and so equal to r exactly when the
\* cursor of r was 0.
C13_RoundTripEqualCursorZero ==
    (ReadBackAsWritten /\ OnlySO(recording))
    => /\ out = Some([mode |-> recording.mode,
                      board_size |-> recording.board_size,
                      moves |-> recording.moves,
                      current_move |-> 0])
       /\ (out = Some(recording)) <=> (recording.current_move = 0)

\* C13 witness: a Recording of S and O moves, a board size of two digits and
\* its cursor past its moves was written and read back.
C13_Witness ==
    /\ ReadBackAsWritten
    /\ OnlySO(recording)
    /\ Len(recording.moves) = MaxFileMoves
    /\ recording.current_move = MaxFileMoves
    /\ recording.board_size >= 10
    /\ out # None

\* C14: any Recording (either mode, any board_size, no move or several, cells
\* S, O or Empty) that is written and read back is returned with the same mode,
\* the same board_size and the same moves in the same order.
C14_RoundTripKeepsModeSizeMoves ==
    ReadBackAsWritten
    => /\ out # None
       /\ out # Panic
       /\ out.value.mode = recording.mode
       /\ out.value.board_size = recording.board_size
       /\ Len(out.value.moves) = Len(recording.moves)
       /\ \A i \in 1..Len(recording.moves) :
             /\ out.value.moves[i].cell = recording.moves[i].cell
             /\ out.value.moves[i].row = recording.moves[i].row
             /\ out.value.moves[i].col = recording.moves[i].col

\* C14 witness: a Simple Recording with an Empty move and a row of two digits
\* was written and read back.
C14_Witness ==
    /\ ReadBackAsWritten
    /\ recording.mode = "Simple"
    /\ Len(recording.moves) = MaxFileMoves
    /\ recording.moves[1].cell = "Empty"
    /\ recording.moves[MaxFileMoves].row >= 10
    /\ out # None

\* A field is a base-10 non-negative integer: decimal digits, at least one,
\* after an optional + sign.
IsNumber(str) ==
    LET digits == IF str # <<>> /\ str[1] = "+" THEN Tail(str) ELSE str
    IN /\ digits # <<>>
       /\ \A i \in 1..Len(digits) : \E d \in 1..10 : Digits[d] = digits[i]

\* The k-th comma-separated field of a line is missing or is not a number.
BadField(line, k) == Len(split(line)) < k \/ ~IsNumber(split(line)[k])

\* The header (the first line) of the text, and the lines that follow it.
Header(text) == strip_newline(read_line(text).line)
Following(text) == br_lines(read_line(text).rest)

\* The text is malformed: its header has no parseable board_size field, or a
\* following line (an empty one included) has a row or col field that is
\* missing or is not a number.
Malformed(text) ==
    \/ BadField(Header(text), 2)
    \/ \E i \in 1..Len(Following(text)) :
          BadField(Following(text)[i], 2) \/ BadField(Following(text)[i], 3)

\* C15 (as claimed): read_from_file returns None or a complete Recording for
\* every text and never aborts the program; it returns None for a file that
\* cannot be opened and for every malformed text, and a Recording with one
\* move per following line otherwise.
C15_ParseIsAllOrNothing ==
    last.op = "read_from_file"
    => /\ out # Panic
       /\ ~file.exists => out = None
       /\ (file.exists /\ Malformed(file.text)) => out = None
       /\ (file.exists /\ ~Malformed(file.text))
          => /\ out # None
             /\ Len(out.value.moves) = Len(Following(file.text))

\* C16: clear_grid, in whatever state it is called, sets every cell of the
\* board to Empty and keeps the size of the board, and leaves both scores, the
\* turn, the status and the Recording as they were.
C16_ClearGridFrame ==
    [][ last'.op = "clear_grid"
        => /\ DOMAIN board' = DOMAIN board
           /\ \A row \in DOMAIN board' :
                 /\ DOMAIN board'[row] = DOMAIN board[row]
                 /\ \A col \in DOMAIN board'[row] : board'[row][col] = "Empty"
           /\ left_score' = left_score
           /\ right_score' = right_score
           /\ turn' = turn
           /\ state' = state
           /\ recording' = recording ]_vars

\* C16 witness: the board of a game that was won, with moves recorded and
\* points scored, was cleared.
C16_Witness ==
    /\ last.op = "clear_grid"
    /\ state = "LeftWin"
    /\ left_score > 0
    /\ turn = "Right"
    /\ Len(recording.moves) = MaxRecorded
    /\ NoEmptyCell(board) = FALSE

\* C17: a get_cell call for column x and row y returns an error exactly when x
\* or y is >= the board size, and otherwise the value the cell at row y and
\* column x holds - Empty on a board without moves - and changes nothing of the
\* game; after an accepted make_move at a row and a column, get_cell at that
\* row and column returns the value the move wrote.
C17_GetCellReadsThrough ==
    [][ /\ last'.op = "get_cell"
           => /\ UNCHANGED <<gameVars, recording>>
              /\ cells_filled = 0 => out' \in {Err, Ok("Empty")}
              /\ \A x \in Coords, y \in Coords :
                    GetCell(x, y)
                    => IF x >= board_len(board) \/ y >= board_len(board)
                       THEN out' = Err
                       ELSE out' = Ok(board[y][x])
        /\ (last'.op = "make_move" /\ last'.accepted)
           => \A a \in CallArgs :
                 (Acceptable(a[1], a[2]) /\ make_move(a[1], a[2], a[3]))
                 => get_cell(board', a[2], a[1]) = Ok(a[3]) ]_vars

\* C17 witness: get_cell returned the O that a move wrote at row 0, column 1,
\* while the cell at row 1, column 0 is Empty.
C17_Witness ==
    /\ last.op = "get_cell"
    /\ out = Ok("O")
    /\ cells_filled = 1
    /\ board[0][1] = "O"
    /\ board[1][0] = "Empty"

\* The moves of left_player_wins_classic_game are played on a 3x3 Classic game.
ClassicScenario ==
    /\ recording.moves = left_player_wins_classic_game
    /\ game_type = "Classic"
    /\ board_len(board) = 3

\* The moves played so far were all accepted: each is on the board, and the
\* filled-cell count is their number.
AllAccepted ==
    /\ cells_filled = recording.current_move
    /\ \A i \in 1..recording.current_move :
          LET m == recording.moves[i] IN board[m.row][m.col] = m.cell

\* C18 (as claimed): the nine moves S@(0,0), O@(1,0), S@(2,0), O@(0,1), S@(1,1),
\* S@(2,1), O@(0,2), S@(1,2), S@(2,2), played in that order on a started 3x3
\* Classic game, are all accepted, fill the board and end with status LeftWin,
\* left_score = 2 and right_score = 0.
C18_ScenarioLeftWinsByTwo ==
    ClassicScenario
    => /\ AllAccepted
       /\ recording.current_move = 9
          => /\ NoEmptyCell(board)
             /\ state = "LeftWin"
             /\ left_score = 2
             /\ right_score = 0

\* C18 (amended): the nine moves, played in that order on a started 3x3 Classic
\* game, are all accepted, fill the board and end with status LeftWin,
\* left_score = 1 and right_score = 0; the status is Playing until the ninth,
\* and the board then holds one S-O-S line, the one of column 0.
C18_ScenarioLeftWinsByOne ==
    ClassicScenario
    => /\ AllAccepted
       /\ recording.current_move < 9 => state = "Playing"
       /\ recording.current_move = 9
          => /\ NoEmptyCell(board)
             /\ state = "LeftWin"
             /\ left_score = 1
             /\ right_score = 0
             /\ SosLines(board) = {<<1, 0, <<1, 0>>>>}

\* C18 witness: the nine moves have been played.
C18_Witness ==
    /\ ClassicScenario
    /\ recording.current_move = 9
    /\ cells_filled = 9
    /\ Terminal(state)

\* The game is as Game::new makes a Game of size n: an n x n board of Empty
\* cells, turn Left, both scores 0, filled-cell count 0, and an empty Recording
\* with its cursor at 0 that carries the mode and the board size of the game.
AsConstructed(n) ==
    /\ DOMAIN board = 0..(n - 1)
    /\ \A row \in DOMAIN board :
          /\ DOMAIN board[row] = 0..(n - 1)
          /\ \A col \in DOMAIN board[row] : board[row][col] = "Empty"
    /\ turn = "Left"
    /\ left_score = 0
    /\ right_score = 0
    /\ cells_filled = 0
    /\ recording.mode = game_type
    /\ recording.board_size = n
    /\ recording.moves = <<>>
    /\ recording.current_move = 0

\* C19: a newly constructed Game has status NotStarted and is as described
\* above, for the size n it was constructed with (here BoardSize - 1 or
\* BoardSize); and until its status is set to Playing no make_move call is
\* accepted: every call leaves the game and its Recording as constructed.
C19_NewGameAndNoMoveBeforeStart ==
    /\ [](state = "NotStarted"
            => \E n \in {BoardSize - 1, BoardSize} : AsConstructed(n))
    /\ [](last.op = "new" => state = "NotStarted")
    /\ [][ (state = "NotStarted" /\ last'.op = "make_move")
            => /\ ~last'.accepted
               /\ UNCHANGED <<gameVars, recording>> ]_vars

\* C19 witness: make_move was called at an Empty cell of the board of a game
\* not yet started, and the game is still not started.
C19_Witness ==
    /\ state = "NotStarted"
    /\ last = Call("make_move", FALSE, 0)
    /\ board_len(board) = BoardSize
    /\ game_type = "Simple"

\* The moves that the next_move calls return, from the Recording rec on, until
\* a call returns None.
RECURSIVE Drained(_)
Drained(rec) ==
    IF next_move(rec).move = None
    THEN <<>>
    ELSE <<next_move(rec).move.value>> \o Drained(next_move(rec).rec)

\* C20: reset sets the cursor to 0 and leaves mode, board_size and the moves
\* as they were; the next_move calls that follow it return the whole sequence
\* of moves again, from the first move on.
C20_ResetRewinds ==
    /\ [][ last'.op = "reset"
            => /\ recording'.current_move = 0
               /\ recording'.mode = recording.mode
               /\ recording'.board_size = recording.board_size
               /\ recording'.moves = recording.moves
               /\ Drained(recording') = recording.moves ]_vars
    /\ []((log[1].op = "reset" /\ NoAddBetween)
           => \A i \in 1..Len(Results) :
                 i <= Len(recording.moves) => Results[i] = Some(recording.moves[i]))

\* C20 witness: after moves had been returned the cursor was reset, and the
\* calls that followed returned every move again.
C20_Witness ==
    /\ log[1].op = "reset"
    /\ Len(log) = 1 + MaxMoves
    /\ Len(Results) = MaxMoves
    /\ recording.current_move = MaxMoves
    /\ recording.moves[1] # recording.moves[MaxMoves]
    /\ out = Some(recording.moves[MaxMoves])

----------------------------------------------------------------------------
(* C21 *)

\* The width and height of a grid, and the coordinates inside it.
Width(grid) == Cardinality(DOMAIN grid[0])
Height(grid) == Cardinality(DOMAIN grid)
InGrid(grid, x, y) == x \in 0..(Width(grid) - 1) /\ y \in 0..(Height(grid) - 1)
GridArgs == (0..GridWidth) \X (0..GridHeight)

\* C21: a set at coordinates inside the grid returns Ok and changes the cell
\* at these coordinates to the value written and no other cell, and a get at
\* coordinates inside the grid returns the value of the cell, so that a get
\* that follows the set returns the value written; a set or a get at x >=
\* width or y >= height returns Err, and no get and no such set changes any
\* cell.
C21_BoardSetAndGet ==
    [][ /\ \A a \in GridArgs, v \in GridValues :
              SetCell(a[1], a[2], v)
              => IF InGrid(board, a[1], a[2])
                 THEN /\ out' = Ok(<<>>)
                      /\ Height(board') = Height(board)
                      /\ \A y \in DOMAIN board :
                            /\ DOMAIN board'[y] = DOMAIN board[y]
                            /\ \A x \in DOMAIN board[y] :
                                  board'[y][x] = IF x = a[1] /\ y = a[2]
                                                 THEN v
                                                 ELSE board[y][x]
                 ELSE out' = Err /\ board' = board
        /\ \A a \in GridArgs :
              GetValue(a[1], a[2])
              => /\ board' = board
                 /\ out' = IF InGrid(board, a[1], a[2])
                           THEN Ok(board[a[2]][a[1]])
                           ELSE Err ]_vars

\* C21 witness: on the largest grid, filled with 0, a 1 was written and the
\* get that followed returned it; every other cell is still 0.
C21_Witness ==
    /\ Width(board) = GridWidth
    /\ Height(board) = GridHeight
    /\ last.op = "get_value"
    /\ out = Ok(1)
    /\ Cardinality({c \in (DOMAIN board) \X (DOMAIN board[0]) :
                        board[c[1]][c[2]] = 1}) = 1

----------------------------------------------------------------------------
(* C22 *)

\* The cells of a board that are not Empty.
FilledCells(b) == {c \in (DOMAIN b) \X (DOMAIN b) : b[c[1]][c[2]] # "Empty"}

\* C22: in every state reached by start, make_move with S or O and
\* clear_grid, cells_filled is the number of cells of the board that are not
\* Empty, and board_full holds exactly when no cell is Empty.
C22_CounterIsFilledCells ==
    /\ cells_filled = Cardinality(FilledCells(board))
    /\ board_full(board, cells_filled) <=> NoEmptyCell(board)

----------------------------------------------------------------------------
(* C23 *)

\* C23: in every state reached by start and make_move with S or O, the two
\* scores add up to the number of straight 3-cell lines of the board that read
\* S-O-S.  No line is lost by a step, the count a move returns is the number
\* of lines that read S-O-S after it and did not before, and the scores grow
\* by this number: a line is scored by the move that completes it, and by no
\* other.
C23_ScoresCountLinesOnce ==
    /\ [](left_score + right_score = Cardinality(SosLines(board)))
    /\ [][ IF last'.op = "make_move" /\ last'.accepted
           THEN LET before == SosLines(board)
                    after == SosLines(board')
                    completed == Cardinality(after) - Cardinality(before)
                IN /\ before \subseteq after
                   /\ last'.count = completed
                   /\ (left_score' + right_score') - (left_score + right_score)
                         = completed
           ELSE /\ board' = board
                /\ left_score' = left_score
                /\ right_score' = right_score ]_vars

\* C23 witness: a board with three S-O-S lines, scored by moves of both
\* players, the last of them by a move that completed one line.
C23_Witness ==
    /\ Cardinality(SosLines(board)) = 3
    /\ left_score > 0
    /\ right_score > 0
    /\ left_score + right_score = 3
    /\ last.op = "make_move"
    /\ last.count = 1

----------------------------------------------------------------------------
(* C24 *)

\* C24: on a board of any size from 1 on, no accepted move with S or O makes
\* sos_made read a cell outside the board or subtract below zero: no call of
\* make_move ends in a panic, in either build.
C24_MakeMoveNeverAborts ==
    /\ last.op # "panic"
    /\ \A row \in DOMAIN board, col \in DOMAIN board, build \in Builds :
          ~sos_made_run(board, col, row, build).panic

----------------------------------------------------------------------------
(* C25 *)

\* C25: a game on a board of size n accepts at most n*n moves: the count of
\* accepted moves never exceeds n*n, it is below n*n while the status is
\* Playing, and once it is n*n the status is LeftWin, RightWin or Draw; and
\* when the players keep making legal moves, a game that is Playing comes to
\* one of these.
C25_GameEndsWithinAllCells ==
    /\ [](cells_filled <= board_len(board) * board_len(board))
    /\ [](state = "Playing" => cells_filled < board_len(board) * board_len(board))
    /\ [](cells_filled = board_len(board) * board_len(board) => Terminal(state))
    /\ (state = "Playing" ~> Terminal(state))

----------------------------------------------------------------------------
(* C26 *)

\* C26: in every state reached by start, make_move and clear_grid on a board
\* of size 1 or more in which the status is Playing, a cell of the board is
\* Empty; and make_random_move, called in such a state, makes one accepted
\* move: make_move returns with the move accepted, one cell that was Empty is
\* not Empty any more, every other cell is as it was and the count of
\* accepted moves has grown by one.
C26_RandomMoveFindsEmptyCell ==
    /\ [](state = "Playing"
           => \E row \in DOMAIN board, col \in DOMAIN board :
                 board[row][col] = "Empty")
    /\ [][ state = "Playing" /\ MakeRandomMove
           => /\ last'.op = "make_move"
              /\ last'.accepted
              /\ cells_filled' = cells_filled + 1
              /\ Cardinality({c \in (DOMAIN board) \X (DOMAIN board) :
                                 board'[c[1]][c[2]] # board[c[1]][c[2]]}) = 1
              /\ \A row \in DOMAIN board, col \in DOMAIN board :
                    board'[row][col] # board[row][col]
                    => board[row][col] = "Empty" /\ board'[row][col] \in {"S", "O"} ]_vars

----------------------------------------------------------------------------
(* C27 *)

\* The last calls on the Recording were a next_move that returned None and,
\* after it, an add_move.
AddedAfterExhausted ==
    /\ Len(log) >= 2
    /\ log[Len(log) - 1] = Asked(None)
    /\ log[Len(log)] = Added

\* C27: whatever add_move, next_move and reset calls are made, the cursor is
\* from 0 to the number of moves; a next_move that returns None leaves the
\* Recording as it was, so that after an add_move that follows it the next
\* next_move returns the move just added; and an add_move leaves the cursor
\* and every move already held as it was.
C27_CursorStaysWithinMoves ==
    /\ [](recording.current_move \in 0..Len(recording.moves))
    /\ [][ /\ (last'.op = "next_move" /\ out' = None) => recording' = recording
           /\ (last'.op = "next_move" /\ AddedAfterExhausted)
              => out' = Some(recording.moves[Len(recording.moves)])
           /\ last'.op = "add_move"
              => /\ recording'.current_move = recording.current_move
                 /\ Len(recording'.moves) = Len(recording.moves) + 1
                 /\ \A i \in 1..Len(recording.moves) :
                       recording'.moves[i] = recording.moves[i] ]_vars

\* C27 witness: the moves ran out, the call after the last one returned None,
\* a move was added and the call that followed returned it.
C27_Witness ==
    /\ Len(log) >= 4
    /\ log[Len(log) - 3].op = "next_move"
    /\ log[Len(log) - 3].result # None
    /\ log[Len(log) - 2] = Asked(None)
    /\ log[Len(log) - 1] = Added
    /\ log[Len(log)] = Asked(Some(recording.moves[Len(recording.moves)]))
    /\ recording.current_move = Len(recording.moves)
    /\ recording.moves[1] # recording.moves[Len(recording.moves)]

----------------------------------------------------------------------------
(* C28 *)

====
